---- MODULE Spec2Model ----
(***************************************************************************)
(* Model of the Qustodio API client (qustodio/qustodioapi.py): the token   *)
(* cache kept by QustodioApi, login() and get_data().  Each call of a      *)
(* handler is one action; the answers of the remote service are the        *)
(* inputs of the action.  The exchange of the last call (the requests it   *)
(* issued, each with the answer it got) is kept in `last`, so that the     *)
(* properties can relate what a call returned to what the service said.    *)
(***************************************************************************)
EXTENDS Integers, Sequences, FiniteSets, TLC

VARIABLES
    now,           \* the wall clock, in seconds (datetime.now())
    access_token,  \* self._access_token
    expires_in,    \* self._expires_in, as seconds on the clock of `now`
    account_id,    \* self._account_id
    account_uid,   \* self._account_uid
    session,       \* self._session
    granted,       \* history: the last authentication answer login() accepted
    last,          \* the last completed call: what it got and what it returned
    coordinator,   \* the update coordinator: last_update_success and data
    host           \* what the host made of the last call (update or setup step)

vars ==
    <<now, access_token, expires_in, account_id, account_uid, session, granted, last,
      coordinator, host>>

client == <<access_token, expires_in, account_id, account_uid, session>>

(***************************************************************************)
(* Bounds of the model.                                                    *)
(***************************************************************************)
MaxTime == 5500        \* the clock stops advancing past this many seconds
MaxProfiles == 2       \* longest profile list the service answers with

(***************************************************************************)
(* Python / JSON values.  A value carries its type in field t, so that the *)
(* code's failures on a value of the wrong type (None.get, d["k"] on a     *)
(* missing key) can be told apart.  None and JSON null are one value.      *)
(***************************************************************************)
None == [t |-> "null"]
Num(n) == [t |-> "num", n |-> n]
Str(s) == [t |-> "str", s |-> s]
Bool(b) == [t |-> "bool", b |-> b]
Arr(s) == [t |-> "arr", a |-> s]
Obj(f) == [t |-> "obj", o |-> f]
\* a body that response.json() cannot parse
Unparsable == [t |-> "bad"]
EmptyDict == Obj(<<>>)

IsObj(x) == x.t = "obj"
IsArr(x) == x.t = "arr"
IsNum(x) == x.t = "num"
\* k in d, for a dict d
HasKey(d, k) == k \in DOMAIN d.o
\* d.get(k, dflt), for a dict d
Get(d, k, dflt) == IF k \in DOMAIN d.o THEN d.o[k] ELSE dflt
\* truth value of a Python object
Truthy(x) ==
    CASE x.t = "null" -> FALSE
      [] x.t = "bool" -> x.b
      [] x.t = "num" -> x.n # 0
      [] x.t = "str" -> x.s # ""
      [] x.t = "arr" -> Len(x.a) > 0
      [] x.t = "obj" -> DOMAIN x.o # {}
      [] OTHER -> TRUE

(***************************************************************************)
(* An answer of the remote service to one request: a timeout, a failure of *)
(* the transport, or an HTTP response with a status and a body.            *)
(***************************************************************************)
Timeout == [kind |-> "timeout", status |-> 0, body |-> Unparsable]
Transport == [kind |-> "transport", status |-> 0, body |-> Unparsable]
Http(status, body) == [kind |-> "http", status |-> status, body |-> body]

\* One request on the wire with the answer it got.  session names the
\* function that opened the ClientSession the request went through; bearer is
\* the token of the Authorization header (None for the login request).
Exchange(req, sess, bearer, acct, prof, resp) ==
    [req |-> req, session |-> sess, bearer |-> bearer, acct |-> acct,
     prof |-> prof, resp |-> resp]

\* const.py: the three results of login()
LOGIN_RESULT_OK == "OK"
LOGIN_RESULT_UNAUTHORIZED == "UNAUTHORIZED"
LOGIN_RESULT_ERROR == "ERROR"

\* timedelta(seconds=response_data.get("expires_in", 3600))
DefaultLifetime == 3600

(***************************************************************************)
(* login()                                                                 *)
(***************************************************************************)
\* two faulty variants of the test below: one still takes the token at the
\* second it expires, the other never looks at the expiry
TokenValidMutGE(tok, exp, t) == tok # None /\ exp # None /\ exp.n >= t
TokenValidMutNoExpiry(tok, exp, t) == tok # None

\* lines 47-51: the cached token is still good
TokenValid(tok, exp, t) == tok # None /\ exp # None /\ exp.n > t

\* The exception, if any, that the request of lines 65-79 raises before the
\* body is looked at.
AuthRaises(resp) ==
    IF resp.kind = "timeout" THEN "TimeoutError"
    ELSE IF resp.kind = "transport" THEN "ClientError"
    ELSE IF resp.status = 200 /\ resp.body = Unparsable THEN "Exception"
    ELSE "none"

\* lines 69-90, the body of the two `async with`: the result returned (or
\* "raise" with the exception in exc), and the token and expiry the client
\* holds when the block is left.
LoginRequest(tok, exp, t, resp) ==
    LET body == resp.body IN
    IF AuthRaises(resp) # "none"
    THEN [result |-> "raise", exc |-> AuthRaises(resp), tok |-> tok, exp |-> exp]
    ELSE IF resp.status = 401
    THEN [result |-> LOGIN_RESULT_UNAUTHORIZED, exc |-> "none", tok |-> tok, exp |-> exp]
    ELSE IF resp.status # 200
    THEN [result |-> LOGIN_RESULT_ERROR, exc |-> "none", tok |-> tok, exp |-> exp]
    \* line 81: `"access_token" not in response_data` raises on None or a number
    ELSE IF body.t \in {"null", "num", "bool"}
    THEN [result |-> "raise", exc |-> "Exception", tok |-> tok, exp |-> exp]
    ELSE IF ~IsObj(body) \/ ~HasKey(body, "access_token")
    THEN [result |-> LOGIN_RESULT_ERROR, exc |-> "none", tok |-> tok, exp |-> exp]
    \* line 85 stores the token, then lines 86-88 compute the expiry:
    \* timedelta() raises on a value that is no number, the token already stored
    ELSE LET life == Get(body, "expires_in", Num(DefaultLifetime)) IN
         IF life.t \notin {"num", "bool"}
         THEN [result |-> "raise", exc |-> "Exception",
               tok |-> body.o.access_token, exp |-> exp]
         ELSE [result |-> LOGIN_RESULT_OK, exc |-> "none",
               tok |-> body.o.access_token,
               exp |-> Num(t + (IF life.t = "bool" THEN (IF life.b THEN 1 ELSE 0) ELSE life.n))]

\* a faulty variant of the handlers below, without the last `except Exception`
LoginCatchesMutNarrow(exc) == exc \in {"TimeoutError", "ClientError"}

\* lines 92-100: which exceptions the handlers of login() turn into ERROR
LoginCatches(exc) == exc \in {"TimeoutError", "ClientError", "Exception"}

\* lines 92-100, entered with what the request block left (r) and the
\* exchange on the wire (x)
AfterRequest(r, x) ==
    IF r.result # "raise"
    THEN [result |-> r.result, exc |-> "none", tok |-> r.tok, exp |-> r.exp, log |-> <<x>>]
    ELSE IF LoginCatches(r.exc)
    THEN [result |-> LOGIN_RESULT_ERROR, exc |-> "none", tok |-> r.tok, exp |-> r.exp,
          log |-> <<x>>]
    ELSE [result |-> "none", exc |-> r.exc, tok |-> r.tok, exp |-> r.exp, log |-> <<x>>]

\* a faulty variant of login() below, which never replaces a token once its
\* expiry has passed
loginMutStuck(tok, exp, t, resp) ==
    IF tok # None /\ exp # None /\ ~TokenValid(tok, exp, t)
    THEN [result |-> LOGIN_RESULT_ERROR, exc |-> "none", tok |-> tok, exp |-> exp,
          log |-> <<>>]
    ELSE IF TokenValid(tok, exp, t)
    THEN [result |-> LOGIN_RESULT_OK, exc |-> "none", tok |-> tok, exp |-> exp,
          log |-> <<>>]
    ELSE AfterRequest(LoginRequest(tok, exp, t, resp),
                      Exchange("auth", "login", None, None, None, resp))

\* login() as a whole, called at time t with the service answering resp to the
\* authentication request (if one is made): the result, whether an exception
\* leaves login(), the token and expiry afterwards, and the requests issued.
login(tok, exp, t, resp) ==
    IF TokenValid(tok, exp, t)
    THEN [result |-> LOGIN_RESULT_OK, exc |-> "none", tok |-> tok, exp |-> exp,
          log |-> <<>>]
    ELSE AfterRequest(LoginRequest(tok, exp, t, resp),
                      Exchange("auth", "login", None, None, None, resp))

(***************************************************************************)
(* get_data(): the steps before the loop over the profiles                 *)
(***************************************************************************)
\* lines 124-131: the exception the account request raises, "none" if none.
\* account_data["id"] raises unless the body is a dict with the key.
AccountRaises(resp) ==
    IF resp.kind = "timeout" THEN "TimeoutError"
    ELSE IF resp.kind = "transport" THEN "ClientError"
    ELSE IF resp.status # 200 THEN "none"
    ELSE IF ~IsObj(resp.body) \/ ~HasKey(resp.body, "id") THEN "Exception"
    ELSE "none"

\* lines 136-146: the device table.  Every failure inside the try leaves the
\* table empty; in the dict comprehension the last device of an id wins.
DevicesOk(resp) ==
    /\ resp.kind = "http"
    /\ resp.status = 200
    /\ IsArr(resp.body)
    /\ \A k \in 1..Len(resp.body.a) :
          IsObj(resp.body.a[k]) /\ HasKey(resp.body.a[k], "id")

DevicesDict(resp) ==
    IF ~DevicesOk(resp) THEN <<>>
    ELSE LET ds == resp.body.a IN
         [i \in {ds[k].o.id : k \in 1..Len(ds)} |->
             ds[CHOOSE k \in 1..Len(ds) :
                    /\ ds[k].o.id = i
                    /\ \A j \in (k + 1)..Len(ds) : ds[j].o.id # i]]

\* lines 150-157: the exception the profile-list request raises, "none" if none
ProfilesRaises(resp) ==
    IF resp.kind = "timeout" THEN "TimeoutError"
    ELSE IF resp.kind = "transport" THEN "ClientError"
    ELSE IF resp.status = 200 /\ resp.body = Unparsable THEN "Exception"
    ELSE "none"

\* lines 159-160: days[datetime.today().weekday()]
days == <<"mon", "tue", "wed", "thu", "fri", "sat", "sun">>

\* a faulty variant of the day code below, counting the week from Sunday
DowMutSundayFirst(weekday) == days[((weekday + 1) % 7) + 1]

Dow(weekday) == days[weekday + 1]

(***************************************************************************)
(* get_data(): one profile of the loop of lines 162-237                    *)
(***************************************************************************)
\* lines 163-171: profile["name"], profile["id"] and the status lookup
HeadRaises(profile) ==
    \/ ~IsObj(profile)
    \/ ~HasKey(profile, "name")
    \/ ~HasKey(profile, "id")
    \/ ~IsObj(Get(profile, "status", EmptyDict))

\* lines 174-181: the identifiers the loop walks through
DeviceIds(profile) == Get(profile, "device_ids", Arr(<<>>))

\* `device_id in devices` raises on an unhashable identifier
Unhashable(x) == x.t \in {"arr", "obj"}

\* lines 175-181 raise when device_ids cannot be iterated, when an identifier
\* is unhashable, or when the alerts of a device of the profile are no dict
TamperRaises(profile, devices) ==
    LET ids == DeviceIds(profile) IN
    \/ ids.t \in {"null", "num", "bool"}
    \/ /\ IsArr(ids)
       /\ \E k \in 1..Len(ids.a) :
             \/ Unhashable(ids.a[k])
             \/ /\ ids.a[k] \in DOMAIN devices
                /\ ~IsObj(Get(devices[ids.a[k]], "alerts", EmptyDict))

\* the positions of device_ids whose device carries the alert
TamperedAt(profile, devices) ==
    LET ids == DeviceIds(profile) IN
    IF ~IsArr(ids) THEN {}
    ELSE {k \in 1..Len(ids.a) :
            /\ ids.a[k] \in DOMAIN devices
            /\ Truthy(Get(Get(devices[ids.a[k]], "alerts", EmptyDict),
                          "unauthorized_remove", Bool(FALSE)))}

\* lines 179-181: every tampered device overwrites the name, so the last one stays
DeviceTampered(profile, devices) ==
    LET at == TamperedAt(profile, devices) IN
    IF at = {} THEN None
    ELSE LET k == CHOOSE i \in at : \A j \in at : j <= i
         IN  Get(devices[DeviceIds(profile).a[k]], "name", Str("Unknown"))

\* a faulty variant of the flag below, set only when every device is tampered
UnauthorizedRemoveMutAll(profile, devices) ==
    LET ids == DeviceIds(profile) IN
    IsArr(ids) /\ Len(ids.a) > 0 /\ TamperedAt(profile, devices) = 1..Len(ids.a)

UnauthorizedRemove(profile, devices) == TamperedAt(profile, devices) # {}

\* lines 184-186
Status(profile) == Get(profile, "status", EmptyDict)
Location(profile) == Get(Status(profile), "location", EmptyDict)

LocationRaises(profile) ==
    \/ ~IsObj(Location(profile))
    \/ Unhashable(Get(Location(profile), "device", None))

\* a faulty variant of the resolution below, without the test of is_online
CurrentDeviceMutIgnoreOnline(profile, devices) ==
    LET device_id == Get(Location(profile), "device", None) IN
    IF Truthy(device_id) /\ device_id \in DOMAIN devices
    THEN Get(devices[device_id], "name", None)
    ELSE None

\* lines 186-191
CurrentDevice(profile, devices) ==
    LET device_id == Get(Location(profile), "device", None) IN
    IF /\ Truthy(Get(Status(profile), "is_online", Bool(FALSE)))
       /\ Truthy(device_id)
       /\ device_id \in DOMAIN devices
    THEN Get(devices[device_id], "name", None)
    ELSE None

\* a number of minutes with one decimal, held in tenths of a minute
Minutes(tenths) == [t |-> "num", tenths |-> tenths]

\* lines 164-199 and 216: the snapshot before the two requests of the profile
Assemble(profile, devices) ==
    [id |-> profile.o.id,
     uid |-> Get(profile, "uid", profile.o.id),
     name |-> profile.o.name,
     is_online |-> Get(Status(profile), "is_online", Bool(FALSE)),
     unauthorized_remove |-> Bool(UnauthorizedRemove(profile, devices)),
     device_tampered |-> DeviceTampered(profile, devices),
     current_device |-> CurrentDevice(profile, devices),
     latitude |-> Get(Location(profile), "latitude", None),
     longitude |-> Get(Location(profile), "longitude", None),
     accuracy |-> Get(Location(profile), "accuracy", Num(0)),
     lastseen |-> Get(Status(profile), "lastseen", None),
     quota |-> Num(0),
     time |-> Minutes(0)]

AssembleRaises(profile, devices) ==
    \/ HeadRaises(profile)
    \/ TamperRaises(profile, devices)
    \/ LocationRaises(profile)

(***************************************************************************)
(* get_data(): the two requests of a profile                               *)
(***************************************************************************)
\* lines 205-209; every exception is swallowed by line 212
RulesOk(resp) ==
    /\ resp.kind = "http"
    /\ resp.status = 200
    /\ IsObj(resp.body)
    /\ IsObj(Get(resp.body, "time_restrictions", EmptyDict))
    /\ IsObj(Get(Get(resp.body, "time_restrictions", EmptyDict), "quotas", EmptyDict))

Quota(resp, dow) ==
    IF RulesOk(resp)
    THEN Get(Get(Get(resp.body, "time_restrictions", EmptyDict), "quotas", EmptyDict),
             dow, Num(0))
    ELSE Num(0)

\* lines 225-231; every exception is swallowed by line 234
HourlyOk(resp) ==
    /\ resp.kind = "http"
    /\ resp.status = 200
    /\ IsArr(resp.body)
    /\ \A k \in 1..Len(resp.body.a) :
          /\ IsObj(resp.body.a[k])
          /\ IsNum(Get(resp.body.a[k], "screen_time_seconds", Num(0)))

RECURSIVE TotalTime(_, _)
TotalTime(entries, k) ==
    IF k > Len(entries) THEN 0
    ELSE Get(entries[k], "screen_time_seconds", Num(0)).n + TotalTime(entries, k + 1)

\* The totals below 600 seconds that lie halfway between two tenths of a
\* minute and that round(total / 60, 1) rounds up (the double nearest to
\* total / 60 decides, so neither half-up nor half-even describes it).
HalfwayUp ==
    {3, 27, 33, 39, 45, 63, 81, 93, 105, 111, 141, 147, 165, 171, 177,
     201, 207, 225, 231, 237, 249, 267, 279, 285, 297, 309, 327, 339, 345,
     357, 369, 387, 399, 405, 417, 429, 447, 459, 465, 477, 483, 489, 513,
     519, 525, 543, 549, 573, 579, 585}

\* a faulty variant of the rounding below, cutting the second decimal off
RoundMutTruncate(total) == total \div 6

\* round(total_time / 60, 1), in tenths of a minute
Round(total) ==
    IF total % 6 < 3 THEN total \div 6
    ELSE IF total % 6 > 3 THEN (total \div 6) + 1
    ELSE IF total \in HalfwayUp THEN (total \div 6) + 1
    ELSE total \div 6

ScreenTime(resp) ==
    IF HourlyOk(resp) THEN Minutes(Round(TotalTime(resp.body.a, 1))) ELSE Minutes(0)

\* data[key] = value
Put(data, key, value) ==
    [k \in (DOMAIN data) \cup {key} |-> IF k = key THEN value ELSE data[k]]

(***************************************************************************)
(* get_data(): the loop of lines 162-237.  ctx holds what the loop reads:  *)
(* the device table, today's day code, the headers' token, the account     *)
(* identifiers and the answers the service gives for the k-th profile.     *)
(* The result is the mapping built so far, the requests issued and the     *)
(* exception that ended the loop, "none" when it ran to its end.           *)
(***************************************************************************)
\* lines 198-235: the snapshot pd with the quota and the screen time filled in
WithUsage(pd, rules, hourly, dow) ==
    [pd EXCEPT !.quota = Quota(rules, dow), !.time = ScreenTime(hourly)]

\* a faulty variant of the requests below, the hourly summary asked for first
RequestsMutHourlyFirst(pd, ctx, k) ==
    <<Exchange("hourly", "get_data", ctx.tok, ctx.account_uid, pd.uid, ctx.hourly[k]),
      Exchange("rules", "get_data", ctx.tok, ctx.account_id, pd.id, ctx.rules[k])>>

\* the two requests of lines 201-204 and 219-224
Requests(pd, ctx, k) ==
    <<Exchange("rules", "get_data", ctx.tok, ctx.account_id, pd.id, ctx.rules[k]),
      Exchange("hourly", "get_data", ctx.tok, ctx.account_uid, pd.uid, ctx.hourly[k])>>

RECURSIVE ProfilesLoop(_, _, _, _, _)
\* lines 198-237 for the k-th profile, then the profiles after it
Rest(pd, ps, k, ctx, data, log) ==
    IF Unhashable(pd.id)
    THEN [exc |-> "Exception", data |-> data, log |-> log \o Requests(pd, ctx, k)]
    ELSE ProfilesLoop(ps, k + 1, ctx,
                      Put(data, pd.id, WithUsage(pd, ctx.rules[k], ctx.hourly[k], ctx.dow)),
                      log \o Requests(pd, ctx, k))

ProfilesLoop(ps, k, ctx, data, log) ==
    IF k > Len(ps) THEN [exc |-> "none", data |-> data, log |-> log]
    ELSE IF AssembleRaises(ps[k], ctx.devices)
    THEN [exc |-> "Exception", data |-> data, log |-> log]
    ELSE Rest(Assemble(ps[k], ctx.devices), ps, k, ctx, data, log)

(***************************************************************************)
(* get_data()                                                              *)
(***************************************************************************)
\* a faulty variant of the handlers below, letting a timeout through
GetDataCatchesMutNoTimeout(exc) == exc \in {"ClientError", "Exception"}

\* lines 242-247: the exceptions the handlers of get_data() swallow
GetDataCatches(exc) == exc \in {"TimeoutError", "ClientError", "Exception"}

\* line 112: the session get_data() opened, as the client refers to it
OpenSession == Str("session")

\* a faulty variant of the exit below, without the finally of lines 248-249
SessionAtExitMutNoFinally(held) == held

\* lines 248-249: whatever way the try block is left, and whatever the client
\* held then, the finally unsets self._session
SessionAtExit(held) == None

\* get_data() as it would be if a 401 or 403 answer made it drop the token
LeaveMutForget(exc, data, result, tok, exp, acct, uid, log) ==
    [ret |-> IF exc = "none" \/ GetDataCatches(exc) THEN data ELSE <<>>,
     exc |-> IF GetDataCatches(exc) THEN "none" ELSE exc,
     result |-> result,
     tok |-> IF \E i \in 1..Len(log) : log[i].req # "auth" /\ log[i].resp.kind = "http"
                                        /\ log[i].resp.status \in {401, 403}
             THEN None ELSE tok,
     exp |-> exp,
     account_id |-> acct, account_uid |-> uid, session |-> SessionAtExit(OpenSession),
     log |-> log]

\* What a call leaves behind: the mapping returned (ret), the exception that
\* leaves get_data() (exc, "none" when it returns), the result of its login
\* step, the fields of the client and the requests issued.  Whichever way the
\* try block is left, line 249 has unset self._session; an exception that a
\* handler swallows falls through to line 251, which returns the mapping as
\* far as it was built.
Leave(exc, data, result, tok, exp, acct, uid, log) ==
    [ret |-> IF exc = "none" \/ GetDataCatches(exc) THEN data ELSE <<>>,
     exc |-> IF GetDataCatches(exc) THEN "none" ELSE exc,
     result |-> result, tok |-> tok, exp |-> exp,
     account_id |-> acct, account_uid |-> uid, session |-> SessionAtExit(OpenSession),
     log |-> log]

\* lines 162-237, entered with the parsed profile list
LoopOver(body, ctx, log) ==
    IF IsArr(body) THEN ProfilesLoop(body.a, 1, ctx, <<>>, log)
    \* iterating None or a number raises; so does profile["name"] on the first
    \* key of a dict or the first character of a string
    ELSE IF body.t \in {"obj", "str"} /\ ~Truthy(body)
    THEN [exc |-> "none", data |-> <<>>, log |-> log]
    ELSE [exc |-> "Exception", data |-> <<>>, log |-> log]

\* lines 237-251: the loop has ended, with or without an exception; when it
\* ran to its end line 239 has unset self._session before the finally
Finish(r, l, acct1, uid1) ==
    [Leave(r.exc, r.data, l.result, l.tok, l.exp, acct1, uid1, r.log)
        EXCEPT !.session = SessionAtExit(IF r.exc = "none" THEN None ELSE OpenSession)]

\* lines 159-240, entered with the profile list fetched: the loop and the return
AfterProfiles(l, acct1, uid1, log2, wd, env) ==
    IF ProfilesRaises(env.profiles) # "none"
    THEN Leave(ProfilesRaises(env.profiles), <<>>, l.result, l.tok, l.exp, acct1, uid1, log2)
    ELSE IF env.profiles.status # 200
    THEN Leave("none", <<>>, l.result, l.tok, l.exp, acct1, uid1, log2)
    ELSE Finish(LoopOver(env.profiles.body,
                         [devices |-> DevicesDict(env.devices), dow |-> Dow(wd),
                          tok |-> l.tok, account_id |-> acct1, account_uid |-> uid1,
                          rules |-> env.rules, hourly |-> env.hourly],
                         log2),
                l, acct1, uid1)

\* lines 124-157, entered with the answer to the account request: the account
\* identifiers are stored, then the devices and the profiles are asked for
AfterAccount(l, log1, acct, uid, wd, env) ==
    IF AccountRaises(env.account) # "none"
    THEN Leave(AccountRaises(env.account), <<>>, l.result, l.tok, l.exp, acct, uid, log1)
    ELSE IF env.account.status # 200
    THEN Leave("none", <<>>, l.result, l.tok, l.exp, acct, uid, log1)
    ELSE AfterProfiles(l, env.account.body.o.id,
                       Get(env.account.body, "uid", env.account.body.o.id),
                       log1 \o <<Exchange("devices", "get_data", l.tok,
                                          env.account.body.o.id, None, env.devices),
                                 Exchange("profiles", "get_data", l.tok,
                                          env.account.body.o.id, None, env.profiles)>>,
                       wd, env)

\* lines 114-124, entered with what login() left (l)
AfterLogin(l, acct, uid, wd, env) ==
    IF l.exc # "none"
    THEN Leave(l.exc, <<>>, l.result, l.tok, l.exp, acct, uid, l.log)
    ELSE IF l.result # LOGIN_RESULT_OK
    THEN Leave("none", <<>>, l.result, l.tok, l.exp, acct, uid, l.log)
    ELSE AfterAccount(l, l.log \o <<Exchange("account", "get_data", l.tok, None, None,
                                             env.account)>>,
                      acct, uid, wd, env)

\* get_data() called at time t on weekday wd by a client holding tok, exp,
\* acct and uid; env holds the answers of the service: auth, account, devices,
\* profiles, and rules[k] and hourly[k] for the k-th profile of the list.
get_data(tok, exp, acct, uid, t, wd, env) ==
    AfterLogin(login(tok, exp, t, env.auth), acct, uid, wd, env)

(***************************************************************************)
(* The answers of the remote service the model draws from                  *)
(***************************************************************************)
Tokens == {"t1", "t2"}

\* a token with the lifetime omitted, declared, or declared as text
TokenBodies ==
    UNION {{Obj([access_token |-> Str(tk)]),
            Obj([access_token |-> Str(tk), expires_in |-> Num(1800)]),
            Obj([access_token |-> Str(tk), expires_in |-> Str("soon")])} : tk \in Tokens}

AuthAnswers ==
    {Timeout, Transport, Http(401, EmptyDict), Http(500, Unparsable),
     Http(200, Unparsable), Http(200, EmptyDict), Http(200, None)}
    \cup {Http(200, b) : b \in TokenBodies}

FewAuthAnswers ==
    {Timeout, Http(401, EmptyDict), Http(200, Obj([access_token |-> Str("t1")]))}

AccountFull == Obj([id |-> Num(7), uid |-> Str("u7")])

AccountAnswers ==
    {Timeout, Transport, Http(500, Unparsable), Http(200, Unparsable),
     Http(200, EmptyDict), Http(200, AccountFull)}

FewAccountAnswers == {Timeout, Http(500, Unparsable), Http(200, AccountFull),
                      Http(200, Obj([id |-> Num(7)]))}

Alert(b) == Obj([unauthorized_remove |-> Bool(b)])
D1 == Obj([id |-> Num(1), name |-> Str("phone"), alerts |-> Alert(TRUE)])
D1ok == Obj([id |-> Num(1), name |-> Str("phone"), alerts |-> Alert(FALSE)])
D1bare == Obj([id |-> Num(1), name |-> Str("phone")])
D1anon == Obj([id |-> Num(1), alerts |-> Alert(TRUE)])
D1null == Obj([id |-> Num(1), name |-> Str("phone"), alerts |-> None])
D2 == Obj([id |-> Num(2), name |-> Str("tablet"), alerts |-> Alert(TRUE)])
D2ok == Obj([id |-> Num(2), name |-> Str("tablet"), alerts |-> EmptyDict])

DeviceFailures == {Timeout, Transport, Http(500, Unparsable), Http(200, Unparsable)}

DeviceAnswers ==
    DeviceFailures
    \cup {Http(200, Arr(ds)) :
            ds \in {<<>>, <<D1>>, <<D1ok, D2>>, <<D1, D2>>, <<D1bare, D2ok>>, <<D1anon>>,
                    <<D1null, D2ok>>, <<D2, D1anon>>,
                    <<Obj([name |-> Str("phone")])>>}}

\* the k-th profile of a list, in each of the shapes the model knows
Online(loc) == Obj([is_online |-> Bool(TRUE), location |-> loc])
At(d) == Obj([device |-> Num(d)])
PId(k) == Num(10 + k)

Plain(k) == Obj([id |-> PId(k), name |-> Str("kid")])
OnPhone(k) ==
    Obj([id |-> PId(k), uid |-> Num(20 + k), name |-> Str("kid"),
         status |-> Online(At(1)), device_ids |-> Arr(<<Num(1)>>)])

ProfileShapes(k) ==
    {Plain(k), OnPhone(k),
     Obj([id |-> PId(k), name |-> Str("kid"),
          status |-> Obj([is_online |-> Bool(FALSE), location |-> At(1)]),
          device_ids |-> Arr(<<Num(1), Num(2)>>)]),
     Obj([id |-> PId(k), name |-> Str("kid"), status |-> Online(EmptyDict),
          device_ids |-> Arr(<<Num(2)>>)]),
     Obj([id |-> PId(k), name |-> Str("kid"), status |-> Obj([is_online |-> Bool(TRUE)]),
          device_ids |-> Arr(<<Num(3)>>)]),
     Obj([id |-> PId(k), name |-> Str("kid"), status |-> Online(At(3)),
          device_ids |-> Arr(<<Num(2), Num(1)>>)]),
     Obj([id |-> PId(k), name |-> Str("kid"), status |-> Online(At(2))]),
     Obj([id |-> PId(k)]),
     Obj([id |-> PId(k), name |-> Str("kid"), status |-> None]),
     Obj([id |-> PId(k), name |-> Str("kid"), status |-> Online(None)])}

\* for each place k of a list, the shapes its profile is drawn from
AllShapes == [k \in 1..MaxProfiles |-> ProfileShapes(k)]
FewShapes == [k \in 1..MaxProfiles |-> {Plain(k), OnPhone(k)}]
OneShape == [k \in 1..MaxProfiles |-> {OnPhone(k)}]

\* the profile lists of at most MaxProfiles profiles, the k-th drawn from S[k]
Lists(S) ==
    UNION {{ps \in [1..n -> UNION {S[k] : k \in 1..n}] : \A k \in 1..n : ps[k] \in S[k]} :
             n \in 0..MaxProfiles}

ProfileFailures == {Timeout, Transport, Http(500, Unparsable), Http(200, Unparsable)}

ProfileAnswers(S) == ProfileFailures \cup {Http(200, Arr(ps)) : ps \in Lists(S)}

Quotas(q) == Http(200, Obj([time_restrictions |-> Obj([quotas |-> q])]))
RulesWeek ==
    Quotas(Obj([mon |-> Num(10), tue |-> Num(20), wed |-> Num(30), thu |-> Num(40),
                fri |-> Num(50), sat |-> Num(60), sun |-> Num(70)]))

RulesFailures == {Timeout, Transport, Http(404, Unparsable), Http(200, Unparsable)}

RulesAnswers ==
    RulesFailures
    \cup {RulesWeek, Quotas(Obj([mon |-> Num(60), sun |-> Num(120)])), Quotas(EmptyDict),
          Http(200, EmptyDict),
          Http(200, Obj([time_restrictions |-> EmptyDict])),
          Http(200, Obj([time_restrictions |-> None]))}

Used(n) == Obj([screen_time_seconds |-> Num(n)])
HourlyDay == Http(200, Arr(<<Used(93), Used(15)>>))

HourlyFailures == {Timeout, Transport, Http(500, Unparsable), Http(200, Unparsable)}

HourlyAnswers ==
    HourlyFailures
    \cup {Http(200, Arr(es)) :
            es \in {<<>>, <<Used(60)>>, <<Used(45)>>, <<Used(15)>>, <<Used(93), Used(15)>>,
                    <<EmptyDict, Used(60)>>, <<Used(60), Used(60), Used(14)>>, <<Used(100)>>,
                    <<Obj([screen_time_seconds |-> Str("60")])>>, <<Used(60), None>>}}

(***************************************************************************)
(* The state machine                                                       *)
(***************************************************************************)
\* no authentication answer accepted yet
NoGrant == [some |-> FALSE, T |-> 0, declared |-> None]

\* no call has returned a value the caller has not taken yet
Idle ==
    [op |-> "none", at |-> 0, wd |-> 0, result |-> "none", exc |-> "none",
     ret |-> <<>>, log |-> <<>>,
     pre |-> [tok |-> None, exp |-> None, grant |-> NoGrant]]

\* __init__.py lines 53-61: the coordinator before its first refresh
NoUpdate == [last_update_success |-> TRUE, some |-> FALSE, data |-> <<>>]

\* the host has made nothing of a call yet
NoHost ==
    [step |-> "none", raised |-> "none", login |-> "none", errors |-> "none",
     entry |-> FALSE, profiles |-> <<>>, before |-> NoUpdate]

\* lines 35-43: the client as the constructor leaves it
Init ==
    /\ now = 0
    /\ access_token = None
    /\ expires_in = None
    /\ account_id = None
    /\ account_uid = None
    /\ session = None
    /\ granted = NoGrant
    /\ last = Idle
    /\ coordinator = NoUpdate
    /\ host = NoHost

\* history of lines 85-90: the answer that made login() store a token and
\* return OK, with the time it did
Granted(log, result, t) ==
    IF Len(log) > 0 /\ log[1].req = "auth" /\ result = LOGIN_RESULT_OK
    THEN [some |-> TRUE, T |-> t, declared |-> Get(log[1].resp.body, "expires_in", None)]
    ELSE granted

\* the answers login() can get: none is asked for while the token is good
AuthChoices(Auths) ==
    IF TokenValid(access_token, expires_in, now) THEN {Timeout} ELSE Auths

\* time passes between two calls
Tick ==
    /\ last.op = "none"
    /\ \E d \in {1800, 1900} :
          /\ now + d <= MaxTime
          /\ now' = now + d
    /\ UNCHANGED <<client, granted, last, coordinator, host>>

\* the state a call of login() leaves, l being what login() computed
StoreLogin(l) ==
    /\ access_token' = l.tok
    /\ expires_in' = l.exp
    /\ granted' = Granted(l.log, l.result, now)
    /\ last' = [op |-> "login", at |-> now, wd |-> 0, result |-> l.result,
                exc |-> l.exc, ret |-> <<>>, log |-> l.log,
                pre |-> [tok |-> access_token, exp |-> expires_in, grant |-> granted]]
    /\ UNCHANGED <<now, account_id, account_uid, session, coordinator, host>>

\* a call of login(), from its first line to its return
Login ==
    /\ last.op = "none"
    /\ \E resp \in AuthChoices(AuthAnswers) :
          StoreLogin(login(access_token, expires_in, now, resp))

\* the state a call of get_data() leaves on the client, r being what
\* get_data() computed
StoreCall(r, wd) ==
    /\ access_token' = r.tok
    /\ expires_in' = r.exp
    /\ account_id' = r.account_id
    /\ account_uid' = r.account_uid
    /\ session' = r.session
    /\ granted' = Granted(r.log, r.result, now)
    /\ last' = [op |-> "get_data", at |-> now, wd |-> wd, result |-> r.result,
                exc |-> r.exc, ret |-> r.ret, log |-> r.log,
                pre |-> [tok |-> access_token, exp |-> expires_in, grant |-> granted]]
    /\ UNCHANGED now

\* the same for a call the host is no part of
Store(r, wd) == StoreCall(r, wd) /\ UNCHANGED <<coordinator, host>>

Returned(wd, env) ==
    Store(get_data(access_token, expires_in, account_id, account_uid, now, wd, env), wd)

Env(auth, account, devices, profiles, rules, hourly) ==
    [auth |-> auth, account |-> account, devices |-> devices, profiles |-> profiles,
     rules |-> rules, hourly |-> hourly]

\* a call of get_data(), from its first line to its return, the service
\* answering from the given sets; the answers to requests the call does not
\* get to make are not drawn
GetData(Auths, Accounts, Devices, Profiles, Rules, Hourlies, Weekdays) ==
    \E auth \in AuthChoices(Auths) :
       IF login(access_token, expires_in, now, auth).result # LOGIN_RESULT_OK
       THEN Returned(0, Env(auth, Timeout, Timeout, Timeout, <<>>, <<>>))
       ELSE \E account \in Accounts :
               IF AccountRaises(account) # "none" \/ account.status # 200
               THEN Returned(0, Env(auth, account, Timeout, Timeout, <<>>, <<>>))
               ELSE \E devices \in Devices, profiles \in Profiles :
                       IF ~(profiles.kind = "http" /\ profiles.status = 200
                            /\ IsArr(profiles.body))
                       THEN Returned(0, Env(auth, account, devices, profiles, <<>>, <<>>))
                       ELSE \E wd \in Weekdays :
                            \E rules \in [1..Len(profiles.body.a) -> Rules] :
                            \E hourly \in [1..Len(profiles.body.a) -> Hourlies] :
                               Returned(wd, Env(auth, account, devices, profiles,
                                                rules, hourly))

\* the caller takes the value the call returned
CallerResumes ==
    /\ last.op # "none"
    /\ last' = Idle
    /\ host' = NoHost
    /\ UNCHANGED <<now, client, granted, coordinator>>

\* get_data() as the polling of a running integration exercises it
Poll ==
    /\ last.op = "none"
    /\ GetData(AuthAnswers, FewAccountAnswers, {Http(200, Arr(<<D1, D2ok>>)), Timeout},
            ProfileAnswers(FewShapes), {RulesWeek}, {HourlyDay}, {0})

\* lines 125-127, 137, 151-153, 195, 217: the service answers an authenticated
\* request with a status that is not 200
Rejections == {Http(401, EmptyDict), Http(403, Unparsable)}

\* get_data() against a service that rejects authenticated requests
PollRejected ==
    /\ last.op = "none"
    /\ GetData(AuthAnswers, Rejections \cup {Http(200, AccountFull)},
               Rejections \cup {Http(200, Arr(<<D1, D2ok>>))},
               Rejections \cup {Http(200, Arr(<<OnPhone(1)>>))},
               Rejections \cup {RulesWeek}, Rejections \cup {HourlyDay}, {0})

Next == Tick \/ Login \/ Poll \/ PollRejected \/ CallerResumes

Spec == Init /\ [][Next]_vars

\* get_data() against every shape of profile and device list
FetchShapes ==
    /\ last.op = "none"
    /\ GetData(FewAuthAnswers, AccountAnswers, DeviceAnswers, ProfileAnswers(AllShapes),
            {RulesWeek}, {HourlyDay}, {0})

\* get_data() against every outcome of the three best-effort requests
FetchOutcomes ==
    /\ last.op = "none"
    /\ GetData(FewAuthAnswers, AccountAnswers, DeviceFailures \cup {Http(200, Arr(<<D1, D2ok>>))},
            ProfileAnswers(OneShape), RulesFailures \cup {RulesWeek},
            HourlyFailures \cup {HourlyDay}, {0})

\* get_data() against every rules answer, on every day of the week
FetchRules ==
    /\ last.op = "none"
    /\ GetData(FewAuthAnswers, AccountAnswers, {Http(200, Arr(<<D1, D2ok>>))},
            ProfileAnswers(OneShape), RulesAnswers, {HourlyDay, Timeout}, 0..6)

\* get_data() against every hourly summary
FetchHourly ==
    /\ last.op = "none"
    /\ GetData(FewAuthAnswers, AccountAnswers, {Http(200, Arr(<<D1, D2ok>>))},
            ProfileAnswers(OneShape), {RulesWeek, Timeout}, HourlyAnswers, {0})

NextData == FetchShapes \/ FetchOutcomes \/ FetchRules \/ FetchHourly \/ CallerResumes

SpecData == Init /\ [][NextData]_vars

(***************************************************************************)
(* The host: the update coordinator that polls get_data(), its sensors and *)
(* the setup flow.                                                         *)
(***************************************************************************)
\* __init__.py lines 65-68: what _async_update_data raises, g being what
\* get_data() left: UpdateFailed for an exception of get_data(), while a
\* cancellation is no Exception and passes through
UpdateRaises(g) ==
    IF g.exc = "none" THEN "none"
    ELSE IF g.exc = "CancelledError" THEN "CancelledError"
    ELSE "UpdateFailed"

\* the coordinator c after a refresh: the value _async_update_data returned
\* becomes its data, UpdateFailed clears last_update_success and keeps the data
Refreshed(c, g) ==
    IF UpdateRaises(g) = "none"
    THEN [last_update_success |-> TRUE, some |-> TRUE, data |-> g.ret]
    ELSE IF UpdateRaises(g) = "UpdateFailed"
    THEN [c EXCEPT !.last_update_success = FALSE]
    ELSE c

\* the profiles the entities were set up for (sensor.py lines 25-31)
SensorIds == {PId(k) : k \in 1..MaxProfiles}

\* a faulty variant of the property below, which does not look for the profile
availableMutAnyData(c, profile_id) == c.last_update_success /\ c.some

\* sensor.py lines 91-98: the sensor of a profile is available
available(c, profile_id) ==
    /\ c.last_update_success
    /\ c.some
    /\ profile_id \in DOMAIN c.data

\* the answers of the service during a poll cycle of the host
HostProfiles ==
    {Timeout, Http(500, Unparsable)}
    \cup {Http(200, Arr(ps)) : ps \in Lists(OneShape)}
    \cup {Http(200, Arr(<<OnPhone(1), Obj([id |-> PId(2)])>>))}

HostEnvs ==
    {Env(auth, account, Http(200, Arr(<<D1, D2ok>>)), profiles,
         [k \in 1..(MaxProfiles + 1) |-> RulesWeek],
         [k \in 1..(MaxProfiles + 1) |-> HourlyDay]) :
       auth \in FewAuthAnswers,
       account \in {Timeout, Http(500, Unparsable), Http(200, AccountFull)},
       profiles \in HostProfiles}

\* the state a poll cycle leaves, g being what get_data() computed
Polled(g) ==
    /\ StoreCall(g, 0)
    /\ coordinator' = Refreshed(coordinator, g)
    /\ host' = [NoHost EXCEPT !.step = "update", !.raised = UpdateRaises(g),
                              !.before = coordinator]

\* one poll cycle: the coordinator refreshes through _async_update_data
Update ==
    /\ last.op = "none"
    /\ \E env \in HostEnvs :
          Polled(get_data(access_token, expires_in, account_id, account_uid, now, 0, env))

\* a faulty variant of the validation below, which refuses an account
\* without profiles
ValidateRaisesMutNeedsProfiles(l, g) ==
    IF l.exc # "none" THEN l.exc
    ELSE IF l.result = LOGIN_RESULT_UNAUTHORIZED THEN "InvalidAuth"
    ELSE IF l.result # LOGIN_RESULT_OK THEN "CannotConnect"
    ELSE IF g.exc # "none" \/ g.ret = <<>> THEN "CannotConnect"
    ELSE "none"

\* config_flow.py lines 33-55: the exception validate_input raises, "none"
\* when it returns the info; l is what login() left on the client it created
\* and g what get_data() left, asked for only after a login that returned OK
ValidateRaises(l, g) ==
    IF l.exc # "none" THEN l.exc
    ELSE IF l.result = LOGIN_RESULT_UNAUTHORIZED THEN "InvalidAuth"
    ELSE IF l.result # LOGIN_RESULT_OK THEN "CannotConnect"
    ELSE IF g.exc # "none" THEN "CannotConnect"
    ELSE "none"

\* config_flow.py lines 69-77: the error the form is shown with
FlowErrors(raised) ==
    IF raised = "none" THEN "none"
    ELSE IF raised = "CannotConnect" THEN "cannot_connect"
    ELSE IF raised = "InvalidAuth" THEN "invalid_auth"
    ELSE "unknown"

\* the answers of the service during a setup step
SetupEnvs ==
    {Env(auth, account, Http(200, Arr(<<D1, D2ok>>)), profiles,
         [k \in 1..(MaxProfiles + 1) |-> RulesWeek],
         [k \in 1..(MaxProfiles + 1) |-> HourlyDay]) :
       auth \in AuthAnswers,
       account \in {Timeout, Http(200, AccountFull)},
       profiles \in {Timeout} \cup {Http(200, Arr(ps)) : ps \in Lists(OneShape)}}

\* config_flow.py lines 68-85: the step ends with the form shown again, with
\* an error, or with the entry created (line 81) holding the profiles
Shown(l, g, raised) ==
    /\ host' = [NoHost EXCEPT !.step = "user", !.login = l.result, !.raised = raised,
                              !.errors = FlowErrors(raised),
                              !.entry = (raised = "none"),
                              !.profiles = IF raised = "none" THEN g.ret ELSE <<>>]
    /\ last' = [Idle EXCEPT !.op = "user_step", !.at = now, !.result = l.result,
                            !.exc = l.exc,
                            !.log = IF l.exc = "none" /\ l.result = LOGIN_RESULT_OK
                                    THEN l.log \o g.log ELSE l.log]
    /\ UNCHANGED <<now, client, granted, coordinator>>

\* validate_input on a client of its own: login(), then get_data() with the
\* token login() cached
Validated(l, env) ==
    Shown(l, get_data(l.tok, l.exp, None, None, now, 0, env),
          ValidateRaises(l, get_data(l.tok, l.exp, None, None, now, 0, env)))

\* async_step_user with the credentials the user typed
UserStep ==
    /\ last.op = "none"
    /\ \E env \in SetupEnvs : Validated(login(None, None, now, env.auth), env)

\* A poll cycle the host cancels.  get_data() can be cancelled wherever it
\* awaits: a request, its body, or the exit of a session.  g is what the call
\* would have left had it run on, l what its login step leaves, and k the
\* number of exchanges completed when the CancelledError is raised.  No
\* handler of login() or get_data() catches it; the finally of lines 248-249
\* still runs.  The token and the expiry are those of before the call while
\* the authentication answer is awaited, and what lines 85-88 left after it;
\* the account identifiers are stored once the account exchange is complete.
CancelledAt(g, l, k, tok, exp, acct, uid) ==
    [ret |-> <<>>, exc |-> "CancelledError",
     result |-> IF k < Len(l.log) THEN "none" ELSE l.result,
     tok |-> IF k < Len(l.log) THEN tok ELSE l.tok,
     exp |-> IF k < Len(l.log) THEN exp ELSE l.exp,
     account_id |-> IF k > Len(l.log) THEN g.account_id ELSE acct,
     account_uid |-> IF k > Len(l.log) THEN g.account_uid ELSE uid,
     session |-> SessionAtExit(OpenSession),
     log |-> SubSeq(g.log, 1, k)]

\* the answers of the service during a cycle that is cancelled
CancelEnvs ==
    {Env(auth, Http(200, AccountFull), Http(200, Arr(<<D1, D2ok>>)),
         Http(200, Arr(<<OnPhone(1)>>)),
         [k \in 1..(MaxProfiles + 1) |-> RulesWeek],
         [k \in 1..(MaxProfiles + 1) |-> HourlyDay]) :
       auth \in FewAuthAnswers
                \cup {Http(200, Obj([access_token |-> Str("t2"),
                                     expires_in |-> Str("soon")]))}}

\* the state a cancelled cycle leaves: the coordinator's refresh is cancelled
\* with it
Interrupted(g) ==
    /\ StoreCall(g, 0)
    /\ host' = [NoHost EXCEPT !.step = "cancel", !.raised = UpdateRaises(g),
                              !.before = coordinator]
    /\ coordinator' = Refreshed(coordinator, g)

CutAt(g, l) ==
    \E k \in 0..Len(g.log) :
       Interrupted(CancelledAt(g, l, k, access_token, expires_in, account_id, account_uid))

\* one poll cycle that the host cancels or times out
Cancel ==
    /\ last.op = "none"
    /\ \E env \in CancelEnvs :
          CutAt(get_data(access_token, expires_in, account_id, account_uid, now, 0, env),
                login(access_token, expires_in, now, env.auth))

NextHost == Tick \/ Update \/ UserStep \/ Cancel \/ CallerResumes

SpecHost == Init /\ [][NextHost]_vars

(***************************************************************************)
(* Properties.  They speak of the call that has just returned: the client  *)
(* before it (last.pre), the time it ran at (last.at), the requests it     *)
(* issued with the answers they got (last.log) and what it returned.       *)
(***************************************************************************)
Called == last.op \in {"login", "get_data"}

\* the authentication requests the call issued
AuthRequests == {i \in 1..Len(last.log) : last.log[i].req = "auth"}

\* before the call a token was cached whose expiry lay strictly ahead
FreshBefore ==
    /\ last.pre.tok # None
    /\ last.pre.exp # None
    /\ last.pre.exp.n > last.at

\* the call asked for a token, and this is the answer it got
Asked == Called /\ Len(last.log) > 0 /\ last.log[1].req = "auth"
Answer == last.log[1].resp
CarriesToken(resp) ==
    /\ resp.kind = "http"
    /\ resp.status = 200
    /\ resp.body.t = "obj"
    /\ "access_token" \in DOMAIN resp.body.o

\* C1: a login() that finds a cached token whose expiry is strictly later
\* than the current time returns OK, issues no request and leaves token and
\* expiry as they were; with the expiry equal to the current time it does not
\* take this path, it asks for a new token.
C1_FastPath ==
    /\ (last.op = "login" /\ FreshBefore) =>
          /\ last.result = "OK"
          /\ last.exc = "none"
          /\ Len(last.log) = 0
          /\ access_token = last.pre.tok
          /\ expires_in = last.pre.exp
    /\ (last.op = "login" /\ last.pre.tok # None /\ last.pre.exp # None
            /\ last.pre.exp.n = last.at) =>
          Len(last.log) = 1 /\ last.log[1].req = "auth"

\* a login() answered from the cache
C1_Witness ==
    /\ last.op = "login"
    /\ FreshBefore
    /\ Len(last.log) = 0
    /\ last.result = "OK"

\* a login() at the very second the token expires
C1_AtExpiry ==
    /\ last.op = "login"
    /\ last.pre.tok # None
    /\ last.pre.exp # None
    /\ last.pre.exp.n = last.at

\* the lifetime the accepted answer declared, 3600 seconds when it declared none
Lifetime(grant) == IF grant.declared = None THEN 3600 ELSE grant.declared.n

\* C2: a call made without a cached token, or with an expired one, issues
\* exactly one authentication request, whatever the answer.  After a login
\* accepted at time T with lifetime L, a login() or get_data() at a time
\* before T+L issues no authentication request and one at T+L or later
\* issues one.
C2_OneAuthentication ==
    /\ (Called /\ ~FreshBefore) => Cardinality(AuthRequests) = 1
    /\ (Called /\ last.pre.grant.some) =>
          /\ last.at < last.pre.grant.T + Lifetime(last.pre.grant) =>
                AuthRequests = {}
          /\ last.at >= last.pre.grant.T + Lifetime(last.pre.grant) =>
                Cardinality(AuthRequests) = 1

\* the scenario of the specification: the token of time T with the default
\* lifetime, and a get_data() at T+3700 that authenticates again
C2_Witness ==
    /\ last.op = "get_data"
    /\ last.pre.grant.some
    /\ last.pre.grant.declared = None
    /\ last.at = last.pre.grant.T + 3700
    /\ Cardinality(AuthRequests) = 1

\* the other half of the scenario: a get_data() at T+1800 that does not
C2_Reuse ==
    /\ last.op = "get_data"
    /\ last.pre.grant.some
    /\ last.pre.grant.declared = None
    /\ last.at = last.pre.grant.T + 1800
    /\ AuthRequests = {}

\* C3: a login that asks for a token returns UNAUTHORIZED exactly when the
\* answer has status 401; ERROR for any other status than 200, for a timeout,
\* for a transport failure and for a 200 answer without the access_token
\* field; OK only for a 200 answer that carries the field.  No exception
\* leaves login().
C3_Classification ==
    Asked =>
       /\ last.exc = "none"
       /\ last.result \in {"OK", "UNAUTHORIZED", "ERROR"}
       /\ last.result = "UNAUTHORIZED" <=> (Answer.kind = "http" /\ Answer.status = 401)
       /\ (Answer.kind = "http" /\ Answer.status \notin {200, 401}) => last.result = "ERROR"
       /\ Answer.kind \in {"timeout", "transport"} => last.result = "ERROR"
       /\ (Answer.kind = "http" /\ Answer.status = 200 /\ ~CarriesToken(Answer)) =>
             last.result = "ERROR"
       /\ last.result = "OK" => CarriesToken(Answer)

\* a login() answered 200 by a body that cannot be parsed
C3_Witness ==
    /\ last.op = "login"
    /\ Asked
    /\ Answer.kind = "http"
    /\ Answer.status = 200
    /\ Answer.body = Unparsable
    /\ last.result = "ERROR"

\* C4: a login that returns UNAUTHORIZED or ERROR leaves the cached token and
\* the cached expiry as they were before the call.
C4_FailureKeepsCache ==
    (last.op = "login" /\ last.result \in {"UNAUTHORIZED", "ERROR"}) =>
        /\ access_token = last.pre.tok
        /\ expires_in = last.pre.exp

(***************************************************************************)
(* Properties of get_data(), stated on the answers the call got.           *)
(***************************************************************************)
\* the requests of one kind the call issued, and the answer to the first
Sent(req) == {i \in 1..Len(last.log) : last.log[i].req = req}
Reply(req) == last.log[CHOOSE i \in Sent(req) : TRUE].resp

\* an answer that is no HTTP response of status 200 with a body that parses
Failed(resp) == resp.kind # "http" \/ resp.status # 200 \/ resp.body = Unparsable

\* the call got the list of profiles: login, account and profile list succeeded
GotProfiles ==
    /\ last.op = "get_data"
    /\ last.result = "OK"
    /\ Sent("account") # {} /\ ~Failed(Reply("account"))
    /\ Sent("profiles") # {} /\ ~Failed(Reply("profiles"))
    /\ Reply("profiles").body.t = "arr"

\* the profiles of the list the call got, and the one with a given identifier
Listed == {Reply("profiles").body.a[k] : k \in 1..Len(Reply("profiles").body.a)}
ProfileOf(id) == CHOOSE p \in Listed : p.o.id = id

\* the devices the call fetched; none when the devices request failed
Fetched ==
    LET r == Reply("devices") IN
    IF ~Failed(r) /\ r.body.t = "arr"
          /\ \A k \in 1..Len(r.body.a) : r.body.a[k].t = "obj" /\ "id" \in DOMAIN r.body.a[k].o
    THEN {r.body.a[k] : k \in 1..Len(r.body.a)}
    ELSE {}

\* the answers to the rules request and to the hourly-summary request of an
\* entry of the returned mapping
RulesReply(e) ==
    last.log[CHOOSE i \in Sent("rules") : last.log[i].prof = e.id].resp
HourlyReply(e) ==
    last.log[CHOOSE i \in Sent("hourly") : last.log[i].prof = e.uid].resp

\* C5: when login, the account fetch and the profile-list fetch succeed and
\* the list holds N profiles, the returned mapping has exactly the N profile
\* identifiers as its keys, whatever the devices, rules and hourly-summary
\* fetches answer; a failed one of these only leaves its fields at their
\* defaults.
C5_EveryProfileReturned ==
    GotProfiles =>
       /\ last.exc = "none"
       /\ DOMAIN last.ret = {p.o.id : p \in Listed}
       /\ \A id \in DOMAIN last.ret :
             /\ Failed(RulesReply(last.ret[id])) => last.ret[id].quota = Num(0)
             /\ Failed(HourlyReply(last.ret[id])) => last.ret[id].time = Minutes(0)
             /\ Failed(Reply("devices")) =>
                   /\ last.ret[id].unauthorized_remove = Bool(FALSE)
                   /\ last.ret[id].device_tampered = None
                   /\ last.ret[id].current_device = None

\* an early required step of the call failed
LoginFailed == last.op = "get_data" /\ last.result # "OK"
AccountFailed == last.op = "get_data" /\ Sent("account") # {} /\ Failed(Reply("account"))
ProfilesFailed == last.op = "get_data" /\ Sent("profiles") # {} /\ Failed(Reply("profiles"))

\* the request of the given kind is the last one the call issued
LastSent(req) == Len(last.log) > 0 /\ last.log[Len(last.log)].req = req

\* C6: when login() does not return OK, or the account fetch or the
\* profile-list fetch answers another status than 200, times out or fails at
\* transport level, get_data() returns an empty mapping, raises nothing, and
\* issues no request after the failed one.
C6_EarlyFailureEmpty ==
    /\ (LoginFailed \/ AccountFailed \/ ProfilesFailed) =>
          last.ret = <<>> /\ last.exc = "none"
    /\ LoginFailed => LastSent("auth")
    /\ AccountFailed => LastSent("account")
    /\ ProfilesFailed => LastSent("profiles")

\* the account fetch answered 500
C6_Witness ==
    /\ AccountFailed
    /\ Reply("account").status = 500
    /\ last.ret = <<>>

(***************************************************************************)
(* Properties of the entries of the returned mapping.  An entry is related *)
(* to the profile of the list it was built from and to the answers the     *)
(* call got, not to the steps get_data() took.                             *)
(***************************************************************************)
Returns == last.op = "get_data" /\ DOMAIN last.ret # {}

\* the fetched devices that the device_ids of a profile refer to
DevicesOf(p) ==
    IF "device_ids" \notin DOMAIN p.o THEN {}
    ELSE {d \in Fetched : \E k \in 1..Len(p.o.device_ids.a) : p.o.device_ids.a[k] = d.o.id}

\* the alerts of the device carry unauthorized_remove = True
Alerted(d) ==
    /\ "alerts" \in DOMAIN d.o
    /\ d.o.alerts.t = "obj"
    /\ "unauthorized_remove" \in DOMAIN d.o.alerts.o
    /\ d.o.alerts.o.unauthorized_remove = Bool(TRUE)

AlertedOf(id) == {d \in DevicesOf(ProfileOf(id)) : Alerted(d)}

\* C7 as the specification words it: unauthorized_remove is True exactly when
\* a device of the profile's device_ids carries the alert; device_tampered is
\* then the name of such a device, and None otherwise.
C7_TamperedByName ==
    Returns =>
       \A id \in DOMAIN last.ret :
          /\ last.ret[id].unauthorized_remove = Bool(AlertedOf(id) # {})
          /\ AlertedOf(id) # {} =>
                \E d \in AlertedOf(id) :
                   "name" \in DOMAIN d.o /\ last.ret[id].device_tampered = d.o.name
          /\ AlertedOf(id) = {} => last.ret[id].device_tampered = None

\* what get_data() records for a device: its name, "Unknown" when it has none
Recorded(d) == IF "name" \in DOMAIN d.o THEN d.o.name ELSE Str("Unknown")

\* C7: unauthorized_remove is True exactly when a device of the profile's
\* device_ids carries the alert; device_tampered is then the name of such a
\* device, or "Unknown" when that device has no name, and None otherwise.
C7_Tampered ==
    Returns =>
       \A id \in DOMAIN last.ret :
          /\ last.ret[id].unauthorized_remove = Bool(AlertedOf(id) # {})
          /\ AlertedOf(id) # {} =>
                \E d \in AlertedOf(id) : last.ret[id].device_tampered = Recorded(d)
          /\ AlertedOf(id) = {} => last.ret[id].device_tampered = None

\* a profile flagged for a device that has no name
C7_Witness ==
    /\ Returns
    /\ \E id \in DOMAIN last.ret :
          /\ last.ret[id].unauthorized_remove = Bool(TRUE)
          /\ last.ret[id].device_tampered = Str("Unknown")
          /\ \E d \in AlertedOf(id) : "name" \notin DOMAIN d.o

\* the profile reports itself online
IsOnline(p) ==
    /\ "status" \in DOMAIN p.o
    /\ "is_online" \in DOMAIN p.o.status.o
    /\ p.o.status.o.is_online = Bool(TRUE)

\* the fetched devices that the reported location of the profile refers to
LocatedOn(p) ==
    IF "status" \notin DOMAIN p.o THEN {}
    ELSE IF "location" \notin DOMAIN p.o.status.o THEN {}
    ELSE IF "device" \notin DOMAIN p.o.status.o.location.o THEN {}
    ELSE {d \in Fetched : d.o.id = p.o.status.o.location.o.device}

\* a profile get_data() can take a snapshot of: it has an identifier and a
\* name, its status and its location are objects where present, and so are the
\* alerts of its devices
Sound(p) ==
    /\ {"id", "name"} \subseteq DOMAIN p.o
    /\ "status" \in DOMAIN p.o =>
          /\ p.o.status.t = "obj"
          /\ "location" \in DOMAIN p.o.status.o => p.o.status.o.location.t = "obj"
    /\ \A d \in DevicesOf(p) : "alerts" \in DOMAIN d.o => d.o.alerts.t = "obj"

\* C8: current_device is set, to the name of the referenced device, only when
\* the profile is online and its location refers to a device fetched in this
\* call; for a profile that is offline, has no location or no device
\* reference, refers to an unknown device, or whose devices could not be
\* fetched, current_device is None and the profile is still returned.
C8_CurrentDevice ==
    /\ Returns =>
          \A id \in DOMAIN last.ret :
             /\ last.ret[id].current_device # None =>
                   /\ IsOnline(ProfileOf(id))
                   /\ \E d \in LocatedOn(ProfileOf(id)) :
                         "name" \in DOMAIN d.o /\ last.ret[id].current_device = d.o.name
             /\ (~IsOnline(ProfileOf(id)) \/ LocatedOn(ProfileOf(id)) = {}) =>
                   last.ret[id].current_device = None
    /\ (GotProfiles /\ \A p \in Listed : Sound(p)) =>
          \A p \in Listed :
             (~IsOnline(p) \/ LocatedOn(p) = {}) =>
                /\ p.o.id \in DOMAIN last.ret
                /\ last.ret[p.o.id].current_device = None

\* one profile on a fetched device and one that reports no location, both
\* returned
C8_Witness ==
    /\ Returns
    /\ \E i, j \in DOMAIN last.ret :
          /\ last.ret[i].current_device = Str("phone")
          /\ last.ret[j].current_device = None
          /\ "status" \notin DOMAIN ProfileOf(j).o

\* the three-letter code of the day the call ran on, Monday being day 0
DayCode == <<"mon", "tue", "wed", "thu", "fri", "sat", "sun">>[last.wd + 1]

\* the quotas of a rules answer, an empty set of fields when it has none
QuotasOf(resp) ==
    IF Failed(resp) \/ resp.body.t # "obj" THEN <<>>
    ELSE IF "time_restrictions" \notin DOMAIN resp.body.o THEN <<>>
    ELSE IF resp.body.o.time_restrictions.t # "obj" THEN <<>>
    ELSE IF "quotas" \notin DOMAIN resp.body.o.time_restrictions.o THEN <<>>
    ELSE IF resp.body.o.time_restrictions.o.quotas.t # "obj" THEN <<>>
    ELSE resp.body.o.time_restrictions.o.quotas.o

\* C9: the quota of a returned profile is the value under today's day code in
\* the quotas of the time restrictions of that profile's rules answer, and 0
\* when the day is absent, when the answer has no time restrictions or no
\* quotas, or when the rules fetch failed; it is a function of that profile's
\* rules answer and of the day alone.
C9_QuotaOfToday ==
    Returns =>
       \A id \in DOMAIN last.ret :
          last.ret[id].quota =
             IF DayCode \in DOMAIN QuotasOf(RulesReply(last.ret[id]))
             THEN QuotasOf(RulesReply(last.ret[id]))[DayCode]
             ELSE Num(0)

\* a Sunday on which one profile has a quota of 70 minutes and the rules of
\* another failed to load
C9_Witness ==
    /\ Returns
    /\ last.wd = 6
    /\ \E i, j \in DOMAIN last.ret :
          /\ last.ret[i].quota = Num(70)
          /\ Failed(RulesReply(last.ret[j]))
          /\ last.ret[j].quota = Num(0)

\* the entries of an hourly summary are objects whose screen_time_seconds,
\* where present, is a number
Summable(resp) ==
    /\ ~Failed(resp)
    /\ resp.body.t = "arr"
    /\ \A k \in 1..Len(resp.body.a) :
          /\ resp.body.a[k].t = "obj"
          /\ "screen_time_seconds" \in DOMAIN resp.body.a[k].o =>
                resp.body.a[k].o.screen_time_seconds.t = "num"

\* the seconds of the entries from the k-th on, an entry without the field
\* counting as 0
RECURSIVE Seconds(_, _)
Seconds(es, k) ==
    IF k > Len(es) THEN 0
    ELSE (IF "screen_time_seconds" \in DOMAIN es[k].o
          THEN es[k].o.screen_time_seconds.n ELSE 0) + Seconds(es, k + 1)

\* C10: the time of a returned profile is the sum of screen_time_seconds over
\* the entries of its hourly summary, in minutes, rounded to one decimal: the
\* tenth of a minute nearest to the sum (6 seconds make a tenth, so the two
\* differ by 3 seconds at most); it is 0 when the hourly-summary fetch
\* answers another status than 200, times out, fails at transport level or
\* cannot be parsed.
C10_ScreenTime ==
    Returns =>
       \A id \in DOMAIN last.ret :
          /\ Summable(HourlyReply(last.ret[id])) =>
                /\ last.ret[id].time.t = "num"
                /\ 6 * last.ret[id].time.tenths
                      - Seconds(HourlyReply(last.ret[id]).body.a, 1) \in -3..3
          /\ Failed(HourlyReply(last.ret[id])) => last.ret[id].time = Minutes(0)

\* 93 and 15 seconds in two entries: 1.8 minutes
C10_Witness ==
    /\ Returns
    /\ \E id \in DOMAIN last.ret :
          /\ HourlyReply(last.ret[id]) = HourlyDay
          /\ last.ret[id].time = Minutes(18)

(***************************************************************************)
(* Properties of the fields get_data() keeps on the client.                *)
(***************************************************************************)
\* C11: after every get_data() call has returned, whether it succeeded or
\* failed, the cached account identifier and account UID are both unset.
C11_AccountUnset ==
    last.op = "get_data" => account_id = None /\ account_uid = None

\* C12: on every way out of get_data() (the full snapshot, the early returns
\* after a failed login, account fetch or profile-list fetch, a timeout or a
\* transport failure caught on the way) the client's session reference is
\* None again.
C12_SessionReleased ==
    last.op = "get_data" => session = None

\* a call that ended on a profile-list request that timed out
C12_Witness ==
    /\ ProfilesFailed
    /\ Reply("profiles").kind = "timeout"
    /\ session = None

(***************************************************************************)
(* Properties of the host side.                                            *)
(***************************************************************************)
\* the poll cycle of the host that has just ended
Cycle == host.step = "update"

\* C13: a poll cycle in which get_data() fails on a required resource or on
\* connectivity (login not OK, account lookup or profile-list fetch failed,
\* timed out or failed at transport level) is a failed update: the
\* coordinator's _async_update_data raises UpdateFailed for it.
C13_FailureSurfaces ==
    (Cycle /\ (LoginFailed \/ AccountFailed \/ ProfilesFailed)) =>
        host.raised = "UpdateFailed"

\* C14: after a poll cycle the sensor of a profile is available exactly when
\* the update succeeded and the mapping it brought holds the profile's
\* identifier; after a cycle that brought an empty mapping or failed, no
\* sensor is available, and a sensor is available again after the next cycle
\* whose mapping holds its profile.
C14_Availability ==
    Cycle =>
       \A id \in SensorIds :
          /\ available(coordinator, id) <=>
                (host.raised = "none" /\ id \in DOMAIN last.ret)
          /\ (host.raised = "UpdateFailed" \/ last.ret = <<>>) =>
                ~available(coordinator, id)

\* a sensor that is available again after a cycle that had brought an empty
\* mapping
C14_Witness ==
    /\ Cycle
    /\ host.before.some
    /\ host.before.data = <<>>
    /\ available(coordinator, PId(1))
    /\ ~available(coordinator, PId(2))

\* the setup step that has just ended
Setup == host.step = "user"

\* C15: the setup step shows 'invalid_auth' when login() returns
\* UNAUTHORIZED, 'cannot_connect' for any other result than OK, 'unknown' when
\* an exception comes out of the validation, and creates the entry when
\* login() returns OK, also when get_data() then returns an empty mapping; an
\* entry is created exactly when no error is shown.
C15_SetupOutcome ==
    Setup =>
       /\ host.errors \in {"none", "invalid_auth", "cannot_connect", "unknown"}
       /\ host.login = "UNAUTHORIZED" => host.errors = "invalid_auth"
       /\ (last.exc = "none" /\ host.login \notin {"OK", "UNAUTHORIZED"}) =>
             host.errors = "cannot_connect"
       /\ last.exc # "none" => host.errors = "unknown"
       /\ host.login = "OK" => host.entry
       /\ host.entry <=> host.errors = "none"

\* an entry created for an account whose profiles could not be fetched
C15_Witness ==
    /\ Setup
    /\ host.login = "OK"
    /\ host.entry
    /\ host.profiles = <<>>
    /\ Sent("account") # {} /\ Reply("account").kind = "timeout"

(***************************************************************************)
(* Properties of the requests one get_data() call issues.  The log holds   *)
(* them in the order they were issued, each with the answer that had       *)
(* arrived before the next one was sent.                                   *)
(***************************************************************************)
\* the requests of the call that carry the Authorization header, in order
Authenticated == SelectSeq(last.log, LAMBDA x : x.req # "auth")

\* the profile list the call got, empty when it got none
ListedSeq ==
    IF Sent("profiles") # {} /\ ~Failed(Reply("profiles")) /\ Reply("profiles").body.t = "arr"
    THEN Reply("profiles").body.a
    ELSE <<>>

\* the identifier the hourly-summary request of a profile is made with
UidOf(p) == IF "uid" \in DOMAIN p.o THEN p.o.uid ELSE p.o.id

\* the i-th authenticated request is the one the order of the specification
\* puts there: account, devices, profiles, then rules and hourly summary of
\* the first profile, of the second, and so on
InOrder(i) ==
    LET x == Authenticated[i] IN
    IF i = 1 THEN x.req = "account"
    ELSE IF i = 2 THEN x.req = "devices"
    ELSE IF i = 3 THEN x.req = "profiles"
    ELSE /\ (i - 2) \div 2 <= Len(ListedSeq)
         /\ IF i % 2 = 0
            THEN x.req = "rules" /\ x.prof = ListedSeq[(i - 2) \div 2].o.id
            ELSE x.req = "hourly" /\ x.prof = UidOf(ListedSeq[(i - 2) \div 2])

\* every request of the call succeeded and every profile was returned
FullSuccess ==
    /\ GotProfiles
    /\ \A i \in 1..Len(last.log) : ~Failed(last.log[i].resp)
    /\ DOMAIN last.ret = {p.o.id : p \in Listed}

\* C16: the requests of one get_data() call go out one after another in the
\* order authentication (only without a valid token), account, devices,
\* profiles, then rules and hourly summary of each profile in list order;
\* none carries the Authorization header unless the login step returned OK,
\* each that does carries the token cached when the login step returned, and
\* a fully successful call over N profiles issues 3 + 2N of them.
C16_RequestOrder ==
    last.op = "get_data" =>
       /\ \A i \in AuthRequests : i = 1 /\ ~FreshBefore
       /\ \A i \in 1..Len(Authenticated) : InOrder(i)
       /\ Len(Authenticated) > 0 => last.result = "OK"
       /\ \A i \in 1..Len(Authenticated) : Authenticated[i].bearer = access_token
       /\ FullSuccess => Len(Authenticated) = 3 + 2 * Len(ListedSeq)

\* a fully successful call over two profiles that had to authenticate first:
\* one authentication request and seven authenticated ones
C16_Witness ==
    /\ last.op = "get_data"
    /\ FullSuccess
    /\ Len(ListedSeq) = 2
    /\ Len(last.log) = 8
    /\ AuthRequests = {1}

\* C17: every request made during one get_data() call, the authentication
\* request of its login step included, goes through the one session that
\* this get_data() call opened.
C17_OneSession ==
    last.op = "get_data" =>
       \A i \in 1..Len(last.log) : last.log[i].session = "get_data"

\* the poll cycle that has just been cancelled
Cancelled == host.step = "cancel"

\* the token and the expiry a login that ran to its end on this answer leaves
Complete(resp) ==
    /\ CarriesToken(resp)
    /\ access_token = resp.body.o.access_token
    /\ expires_in.t = "num"
    /\ \/ "expires_in" \notin DOMAIN resp.body.o /\ expires_in.n = last.at + 3600
       \/ /\ "expires_in" \in DOMAIN resp.body.o
          /\ resp.body.o.expires_in.t = "num"
          /\ expires_in.n = last.at + resp.body.o.expires_in.n

\* C18: after a poll cycle cancelled at any point where get_data() or login()
\* awaits, the cached token and expiry are either both as before the cycle or
\* both the ones a completed successful login produced, never a new token
\* with an old or unset expiry; the next call then finds a token that is
\* valid, or none that is.
C18_CancelKeepsToken ==
    Cancelled =>
       \/ access_token = last.pre.tok /\ expires_in = last.pre.exp
       \/ Len(last.log) > 0 /\ last.log[1].req = "auth" /\ Complete(last.log[1].resp)

(***************************************************************************)
(* Properties of the client over its whole life.                           *)
(***************************************************************************)
\* the answer is one a working service gives to the request
Good(x) ==
    /\ ~Failed(x.resp)
    /\ x.req = "auth" =>
          /\ CarriesToken(x.resp)
          /\ "expires_in" \in DOMAIN x.resp.body.o => x.resp.body.o.expires_in.t = "num"
    /\ x.req = "account" => x.resp.body.t = "obj" /\ "id" \in DOMAIN x.resp.body.o
    /\ x.req = "profiles" => x.resp.body.t = "arr"

\* the state of the authentication, as the test of lines 47-51 tells it at
\* time t: a token whose expiry lies ahead, one whose expiry has passed, or
\* no token with an expiry at all
AuthState(tok, exp, t) ==
    IF tok = None \/ exp = None THEN "Unauthenticated"
    ELSE IF exp.n > t THEN "Authenticated"
    ELSE "Expired"

\* the step is a call whose login step asked for a token and returned OK
LoginSucceeds ==
    /\ last'.op \in {"login", "get_data"}
    /\ last'.result = "OK"
    /\ Len(last'.log) > 0
    /\ last'.log[1].req = "auth"

\* a change of the authentication state is one of the three the specification
\* names
AuthMoves ==
    LET before == AuthState(access_token, expires_in, now)
        after == AuthState(access_token', expires_in', now')
    IN  before # after =>
           \/ before = "Unauthenticated" /\ after = "Authenticated" /\ LoginSucceeds
           \/ before = "Expired" /\ after = "Authenticated" /\ LoginSucceeds
           \/ /\ before = "Authenticated" /\ after = "Expired"
              /\ now' > now
              /\ access_token' = access_token /\ expires_in' = expires_in

\* a get_data() call all of whose requests were answered well ran to its end
\* and returned every profile of the list
Recovers ==
    (last.op = "get_data" /\ \A i \in 1..Len(last.log) : Good(last.log[i])) =>
        /\ last.exc = "none"
        /\ GotProfiles
        /\ DOMAIN last.ret = {p.o.id : p \in Listed}
        /\ Len(Authenticated) = 3 + 2 * Len(ListedSeq)

\* C19: whatever calls and failures came before, a get_data() call during
\* which every request succeeds returns the full snapshot of all profiles,
\* and the authentication state only moves from Unauthenticated or Expired
\* to Authenticated by a login that returns OK and from Authenticated to
\* Expired by the passage of time.
C19_NoStuckState == []Recovers /\ [][AuthMoves]_vars

\* a full snapshot of two profiles returned by a client that an earlier
\* failed login had left with a token and no expiry
C19_Witness ==
    /\ last.op = "get_data"
    /\ last.pre.tok # None
    /\ last.pre.exp = None
    /\ \A i \in 1..Len(last.log) : Good(last.log[i])
    /\ Cardinality(DOMAIN last.ret) = 2

\* C20: the mapping get_data() returns is empty or has one entry for every
\* profile identifier of the profile list the call got; when the snapshot of
\* a profile cannot be assembled, the profiles processed before it are not
\* returned on their own.
C20_AllOrNothing ==
    last.op = "get_data" =>
       \/ last.ret = <<>>
       \/ GotProfiles /\ DOMAIN last.ret = {p.o.id : p \in Listed}

(***************************************************************************)
(* Properties of the cached token across rejected requests.                *)
(***************************************************************************)
\* the authenticated requests of the call that the service answered with a
\* status other than 200
RejectedRequests ==
    {i \in 1..Len(last.log) : /\ last.log[i].req # "auth"
                              /\ last.log[i].resp.kind = "http"
                              /\ last.log[i].resp.status # 200}

\* the values the cached token and expiry take
CachedTokens == {Str(tk) : tk \in Tokens}
Times == {t \in {a * 1800 + b * 1900 : a, b \in 0..(MaxTime \div 1800)} : t <= MaxTime}
CachedExpiries == {Num(t + d) : t \in Times, d \in {1800, DefaultLifetime}}

\* get_data() leaves token and expiry as its login step left them: untouched
\* when the step asked for nothing, and after a rejected request the token
\* the request carried with the expiry the login step gave it
LoginStepOnly ==
    last.op = "get_data" =>
       /\ AuthRequests = {} =>
             access_token = last.pre.tok /\ expires_in = last.pre.exp
       /\ \A i \in RejectedRequests :
             /\ access_token = last.log[i].bearer
             /\ access_token \in CachedTokens
             /\ expires_in = IF AuthRequests = {} THEN last.pre.exp
                             ELSE Num(last.at + Lifetime(granted))
             /\ expires_in \in CachedExpiries

\* a get_data() call has returned that had an authenticated request rejected
\* and left token tok and expiry exp on the client
RejectedHolding(tok, exp) ==
    /\ last.op = "get_data"
    /\ RejectedRequests # {}
    /\ access_token = tok
    /\ expires_in = exp

\* a call made before exp asks for no token, sends tok with its requests and
\* leaves tok and exp on the client
Reuses(tok, exp) ==
    (Called /\ last.at < exp.n) =>
        /\ AuthRequests = {}
        /\ \A i \in 1..Len(last.log) : last.log[i].bearer = tok
        /\ access_token = tok
        /\ expires_in = exp

\* C21: get_data() changes the cached token and expiry only through its login
\* step.  A rejection of an authenticated request (a status other than 200 on
\* the account, devices, profiles, rules or hourly-summary request) leaves
\* them unchanged, so every following login() or get_data() call made before
\* the cached expiry issues no authentication request and reuses the same
\* token.
C21_RejectionKeepsToken ==
    /\ []LoginStepOnly
    /\ \A tok \in CachedTokens : \A exp \in CachedExpiries :
          [](RejectedHolding(tok, exp) => [](last.op = "none" => []Reuses(tok, exp)))

\* a get_data() call that reused the token of an earlier login, had its
\* account request answered 401 and left the token and its expiry, still
\* ahead, on the client
C21_Witness ==
    /\ last.op = "get_data"
    /\ last.pre.grant.some
    /\ last.at > last.pre.grant.T
    /\ AuthRequests = {}
    /\ \E i \in RejectedRequests :
          last.log[i].req = "account" /\ last.log[i].resp.status = 401
    /\ access_token = last.pre.tok
    /\ expires_in = last.pre.exp
    /\ expires_in.n > now

====
